---- MODULE Spec2Model ----
(***************************************************************************)
(* Column type dispatch (src/column/factory.rs) and the unified error /    *)
(* suspension model (src/errors.rs) of clickhouse-rs.                      *)
(*                                                                         *)
(* A column is decoded from a byte source by ColumnData::load_data; an     *)
(* io::Error it returns is converted into the unified Error and adapted    *)
(* into a poll result.  The other From impls of errors.rs are modelled as  *)
(* conversions of a raised lower-level failure.                            *)
(***************************************************************************)
EXTENDS Integers, Sequences, FiniteSets, TLC

VARIABLES req, reader, start, turns, pc, ret, low, err, poll, ioOut, origin

vars == <<req, reader, start, turns, pc, ret, low, err, poll, ioOut, origin>>

(***************************************************************************)
(* Bounds.                                                                 *)
(***************************************************************************)
MaxCount == 2
MaxTurns == 2
MaxStart == 1

\* Long enough for MaxCount elements of the widest type (8 bytes).
StreamLen == MaxStart + 8 * MaxCount

(***************************************************************************)
(* Inputs of load_data.                                                    *)
(***************************************************************************)
KnownTypes ==
    {"UInt8", "UInt16", "UInt32", "UInt64", "Int8", "Int16", "Int32", "Int64",
     "Float32", "Float64", "String", "Date", "DateTime"}

UnknownTypes == {"Foo", "uint8", "", "DateTime64", "String "}

TypeNames == KnownTypes \cup UnknownTypes

Timezones == {"UTC", "Europe/Moscow"}

\* Sample wire streams: 1,2,3,...; and the two strings "ab","cde" followed
\* by 0xFF 0xFF 0x00 0x01 repeated.
Ascending == [i \in 1..StreamLen |-> i]

Strings ==
    [i \in 1..StreamLen |->
        IF i <= 7 THEN <<2, 97, 98, 3, 99, 100, 101>>[i]
        ELSE <<255, 255, 0, 1>>[((i - 8) % 4) + 1]]

Streams == {Ascending, Strings}

(***************************************************************************)
(* std::io::Error: a kind, and either a custom message (io::Error::new) or *)
(* nothing but the kind (io::Error::from(kind)).                           *)
(***************************************************************************)
IoNew(kind, message) == [kind |-> kind, repr |-> "Custom", msg |-> message]

IoFromKind(kind) == [kind |-> kind, repr |-> "Simple", msg |-> ""]

(***************************************************************************)
(* The byte source.  data is the wire stream, avail the number of its      *)
(* bytes that have arrived, pos the number of bytes consumed, end what     *)
(* the source reports once the arrived bytes are exhausted.                *)
(***************************************************************************)
ShortRead(r) ==
    CASE r.end = "open" -> IoNew("WouldBlock", "would block")
      [] r.end = "eof" -> IoFromKind("UnexpectedEof")
      [] OTHER -> IoFromKind("ConnectionReset")

\* One decoder invocation's outcome: a complete buffer and the reader
\* advanced past it, or an error and the reader where the invocation
\* found it (nothing is consumed by an invocation that does not complete).
\* buf holds what had been decoded when the invocation ended.
Decoded(r, cur, buf) ==
    [ok |-> TRUE, buf |-> buf, err |-> IoFromKind("Other"),
     reader |-> [r EXCEPT !.pos = cur]]

Short(r, buf) ==
    [ok |-> FALSE, buf |-> buf, err |-> ShortRead(r), reader |-> r]

\* count fixed-width elements, each kept as its bytes in wire order.
RECURSIVE ReadFixed(_, _, _, _, _)
ReadFixed(r, cur, width, count, acc) ==
    IF count = 0 THEN Decoded(r, cur, acc)
    ELSE IF cur + width > r.avail THEN Short(r, acc)
    ELSE ReadFixed(r, cur + width, width, count - 1,
                   Append(acc, SubSeq(r.data, cur + 1, cur + width)))

\* A variable-length size prefix: 7 bits per byte, low group first, the
\* high bit set on every byte but the last.
RECURSIVE ReadUvarint(_, _, _, _)
ReadUvarint(r, cur, shift, acc) ==
    IF cur + 1 > r.avail THEN [ok |-> FALSE, value |-> 0, cur |-> cur]
    ELSE LET b == r.data[cur + 1]
             v == acc + (b % 128) * shift
         IN  IF b < 128 THEN [ok |-> TRUE, value |-> v, cur |-> cur + 1]
             ELSE ReadUvarint(r, cur + 1, shift * 128, v)

\* count length-prefixed byte strings.
RECURSIVE ReadStrings(_, _, _, _)
ReadStrings(r, cur, count, acc) ==
    IF count = 0 THEN Decoded(r, cur, acc)
    ELSE LET len == ReadUvarint(r, cur, 1, 0)
         IN  IF ~len.ok \/ len.cur + len.value > r.avail THEN Short(r, acc)
             ELSE ReadStrings(r, len.cur + len.value, count - 1,
                      Append(acc, SubSeq(r.data, len.cur + 1, len.cur + len.value)))

\* The column buffers.  decoder names the concrete column type, tz the
\* timezone a temporal column is tagged with ("-" when it has none).
Column(decoder, tz, data) == [decoder |-> decoder, tz |-> tz, data |-> data]

NoColumn == Column("-", "-", <<>>)

Loaded(decoder, tz, d) ==
    [d EXCEPT !.buf = Column(decoder, tz, d.buf)]

VectorColumnData_load(elem, width, r, size) ==
    Loaded("VectorColumnData<" \o elem \o ">", "-",
           ReadFixed(r, r.pos, width, size, <<>>))

StringColumnData_load(r, size) ==
    Loaded("StringColumnData", "-", ReadStrings(r, r.pos, size, <<>>))

DateColumnData_load(elem, width, r, size, tz) ==
    Loaded("DateColumnData<" \o elem \o ">", tz,
           ReadFixed(r, r.pos, width, size, <<>>))

(***************************************************************************)
(* ColumnData::load_data.  Result<Arc<ColumnData>, io::Error> together     *)
(* with the reader as the call leaves it.                                  *)
(***************************************************************************)
Ok(buf) == [ok |-> TRUE, buf |-> buf, err |-> IoFromKind("Other")]

Err(e) == [ok |-> FALSE, buf |-> NoColumn, err |-> e]

\* Try without the early return: whatever the decoder had built is wrapped.
Try_NoEarlyReturn(d) == [ret |-> Ok(d.buf), reader |-> d.reader]

\* `Arc::new(X::load(..)?)`: the decoder's error returns early.
Try(d) == [ret |-> IF d.ok THEN Ok(d.buf) ELSE Err(d.err), reader |-> d.reader]

\* The message without its closing full stop.
UnsupportedMessage_NoStop(type_name) ==
    "Unsupported column type \"" \o type_name \o "\""

UnsupportedMessage(type_name) ==
    "Unsupported column type \"" \o type_name \o "\"."

\* The match of load_data.
Dispatch(r, type_name, size, tz) ==
    CASE type_name = "UInt8" -> Try(VectorColumnData_load("u8", 1, r, size))
      [] type_name = "UInt16" -> Try(VectorColumnData_load("u16", 2, r, size))
      [] type_name = "UInt32" -> Try(VectorColumnData_load("u32", 4, r, size))
      [] type_name = "UInt64" -> Try(VectorColumnData_load("u64", 8, r, size))
      [] type_name = "Int8" -> Try(VectorColumnData_load("i8", 1, r, size))
      [] type_name = "Int16" -> Try(VectorColumnData_load("i16", 2, r, size))
      [] type_name = "Int32" -> Try(VectorColumnData_load("i32", 4, r, size))
      [] type_name = "Int64" -> Try(VectorColumnData_load("i64", 8, r, size))
      [] type_name = "Float32" -> Try(VectorColumnData_load("f32", 4, r, size))
      [] type_name = "Float64" -> Try(VectorColumnData_load("f64", 8, r, size))
      [] type_name = "String" -> Try(StringColumnData_load(r, size))
      [] type_name = "Date" -> Try(DateColumnData_load("u16", 2, r, size, tz))
      [] type_name = "DateTime" -> Try(DateColumnData_load("u32", 4, r, size, tz))
      [] OTHER ->
            [ret |-> Err(IoNew("Other", UnsupportedMessage(type_name))),
             reader |-> r]

\* load_data with the DateTime arm a copy of the Date arm.
LoadData_DateTimeAsDate(r, type_name, size, tz) ==
    IF type_name = "DateTime"
    THEN Try(DateColumnData_load("u16", 2, r, size, tz))
    ELSE Dispatch(r, type_name, size, tz)

\* load_data decoding from a copy of the reader: the caller's reader is
\* left where it was.
LoadData_ReaderCopy(r, type_name, size, tz) ==
    [ret |-> Dispatch(r, type_name, size, tz).ret, reader |-> r]

LoadData(r, type_name, size, tz) == Dispatch(r, type_name, size, tz)

(***************************************************************************)
(* Lower-level failures, the inputs of the From impls.  Each is a record   *)
(* [src |-> the Rust type, val |-> the value].                             *)
(***************************************************************************)
Low(src, val) == [src |-> src, val |-> val]

NoLow == Low("None", [none |-> TRUE])

Utf8Errors == {[valid_up_to |-> 0], [valid_up_to |-> 1]}

FromUtf8Errors == {[bytes |-> <<255, 97>>, error |-> [valid_up_to |-> 0]],
                   [bytes |-> <<97, 192>>, error |-> [valid_up_to |-> 1]]}

IoErrors ==
    {IoNew("WouldBlock", "would block"), IoFromKind("WouldBlock"),
     IoFromKind("UnexpectedEof"), IoFromKind("ConnectionReset"),
     IoFromKind("TimedOut"), IoFromKind("Other"), IoNew("Other", "boom")}

DriverErrors ==
    {[variant |-> "Overflow"], [variant |-> "UnknownPacket", packet |-> 7],
     [variant |-> "UnexpectedPacket"], [variant |-> "Timeout"]}
    \cup {[variant |-> "Utf8Error", utf8 |-> u] : u \in Utf8Errors}

ServerErrors ==
    {[code |-> 60, name |-> "DB::Exception", message |-> "Table missing",
      stack_trace |-> ""]}

ParseErrors == {[parse_kind |-> "EmptyHost"], [parse_kind |-> "InvalidPort"]}

UrlErrors ==
    {[variant |-> "Invalid"],
     [variant |-> "InvalidParamValue", param |-> "compression", value |-> "zip"],
     [variant |-> "UnknownParameter", param |-> "foo"],
     [variant |-> "UnsupportedScheme", scheme |-> "http"]}
    \cup {[variant |-> "Parse", parse |-> p] : p \in ParseErrors}

TimerErrors == {[timer_kind |-> "Shutdown"], [timer_kind |-> "AtCapacity"]}

ConnectionErrors ==
    {[variant |-> "TlsHostNotProvided"],
     [variant |-> "IoError", io |-> IoFromKind("ConnectionReset")]}

Messages == {[s |-> ""], [s |-> "WouldBlock"], [s |-> "assertion failed"]}

LowFailures ==
    {Low("DriverError", d) : d \in DriverErrors}
    \cup {Low("io::Error", e) : e \in IoErrors}
    \cup {Low("ServerError", e) : e \in ServerErrors}
    \cup {Low("UrlError", e) : e \in UrlErrors}
    \cup {Low("String", m) : m \in Messages}
    \cup {Low("&str", m) : m \in Messages}
    \cup {Low("FromUtf8Error", e) : e \in FromUtf8Errors}
    \cup {Low("TimerError", e) : e \in TimerErrors}
    \cup {Low("ParseError", e) : e \in ParseErrors}
    \cup {Low("Utf8Error", e) : e \in Utf8Errors}
    \cup {Low("ConnectionError", e) : e \in ConnectionErrors}

(***************************************************************************)
(* enum Error and the conversions into it.                                 *)
(***************************************************************************)
Error(tag, val) == [tag |-> tag, val |-> val]

NoError == Error("None", [none |-> TRUE])

\* failure::Context::new(x).into()
Context(ty, x) == [context |-> ty, of |-> x]

From_DriverError(e) == Error("Driver", e)

From_IoError(e) == Error("Io", e)

From_ServerError(e) == Error("Server", e)

From_UrlError(e) == Error("Url", e)

From_String(e) == Error("Other", Context("String", e))

From_Str(e) == Error("Other", Context("String", e))

\* From<Utf8Error> written like From<FromUtf8Error>.
From_Utf8Error_AsContext(e) == Error("Other", Context("Utf8Error", e))

From_FromUtf8Error(e) == Error("Other", Context("FromUtf8Error", e))

From_TimerError(e) == Error("Other", Context("TimerError", e))

From_ParseError(e) == Error("Url", [variant |-> "Parse", parse |-> e])

From_Utf8Error(e) == Error("Driver", [variant |-> "Utf8Error", utf8 |-> e])

From_ConnectionError(e) == Error("Connection", e)

\* tokio_timer::timeout::Error<T>: Inner(T), Elapsed or Timer(timer error);
\* into_inner() is Some only for Inner.
TimeoutInner(e) == [variant |-> "Inner", inner |-> e]

TimeoutElapsed == [variant |-> "Elapsed"]

TimeoutTimer(t) == [variant |-> "Timer", timer |-> t]

into_inner(t) ==
    IF t.variant = "Inner" THEN [some |-> TRUE, inner |-> t.inner]
    ELSE [some |-> FALSE, inner |-> NoError]

\* From<TimeoutError> that ignores the wrapped error.
From_TimeoutError_AlwaysTimeout(t) == Error("Driver", [variant |-> "Timeout"])

From_TimeoutError(t) ==
    LET o == into_inner(t)
    IN  IF ~o.some THEN Error("Driver", [variant |-> "Timeout"]) ELSE o.inner

(***************************************************************************)
(* impl Into<Poll<Option<Packet<S>>, Error>> for Error.                    *)
(***************************************************************************)
PollNone == [state |-> "None", err |-> NoError]

NotReady == [state |-> "NotReady", err |-> NoError]

PollErr(e) == [state |-> "Err", err |-> e]

\* The adapter without the kind test: every Io error suspends.
IntoPoll_AnyIoSuspends(self) ==
    IF self.tag = "Io" THEN NotReady ELSE PollErr(self)

\* The adapter returning `this` after the swap: the placeholder goes out.
IntoPoll_ReturnsPlaceholder(self) ==
    IF self.tag = "Io"
    THEN IF self.val.kind = "WouldBlock" THEN NotReady
         ELSE LET this == [self EXCEPT !.val = IoFromKind("Other")]
              IN  PollErr(this)
    ELSE PollErr(self)

IntoPoll(self) ==
    IF self.tag = "Io"
    THEN IF self.val.kind = "WouldBlock" THEN NotReady
         ELSE \* mem::replace(e, placeholder) hands back the old *e.
              LET me == self.val
                  this == [self EXCEPT !.val = IoFromKind("Other")]
              IN  PollErr(Error("Io", me))
    ELSE PollErr(self)

(***************************************************************************)
(* impl From<Error> for io::Error, with the derived Debug rendering it     *)
(* uses for every tag but Io.                                              *)
(***************************************************************************)
Quoted(s) == "\"" \o s \o "\""

DebugBytes(b) ==
    "[" \o ToString(b[1]) \o ", " \o ToString(b[2]) \o "]"

DebugUtf8(u) ==
    "Utf8Error { valid_up_to: " \o ToString(u.valid_up_to) \o " }"

DebugIo(e) ==
    IF e.repr = "Custom"
    THEN "Custom { kind: " \o e.kind \o ", error: " \o Quoted(e.msg) \o " }"
    ELSE "Kind(" \o e.kind \o ")"

DebugDriver(d) ==
    CASE d.variant = "UnknownPacket" ->
            "UnknownPacket { packet: " \o ToString(d.packet) \o " }"
      [] d.variant = "Utf8Error" -> "Utf8Error(" \o DebugUtf8(d.utf8) \o ")"
      [] OTHER -> d.variant

DebugConnection(c) ==
    IF c.variant = "IoError" THEN "IoError(" \o DebugIo(c.io) \o ")"
    ELSE c.variant

DebugServer(s) ==
    "ServerError { code: " \o ToString(s.code) \o ", name: " \o Quoted(s.name)
    \o ", message: " \o Quoted(s.message) \o ", stack_trace: "
    \o Quoted(s.stack_trace) \o " }"

DebugUrl(u) ==
    CASE u.variant = "InvalidParamValue" ->
            "InvalidParamValue { param: " \o Quoted(u.param) \o ", value: "
            \o Quoted(u.value) \o " }"
      [] u.variant = "Parse" -> "Parse(" \o u.parse.parse_kind \o ")"
      [] u.variant = "UnknownParameter" ->
            "UnknownParameter { param: " \o Quoted(u.param) \o " }"
      [] u.variant = "UnsupportedScheme" ->
            "UnsupportedScheme { scheme: " \o Quoted(u.scheme) \o " }"
      [] OTHER -> u.variant

DebugFromSql(f) ==
    IF f.variant = "InvalidType"
    THEN "InvalidType { src: " \o Quoted(f.from) \o ", dst: " \o Quoted(f.to)
         \o " }"
    ELSE f.variant

DebugContext(c) ==
    CASE c.context = "String" -> Quoted(c.of.s)
      [] c.context = "FromUtf8Error" ->
            "FromUtf8Error { bytes: " \o DebugBytes(c.of.bytes) \o ", error: "
            \o DebugUtf8(c.of.error) \o " }"
      [] OTHER -> "Error(" \o c.of.timer_kind \o ")"

DebugFmt(e) ==
    CASE e.tag = "Driver" -> "Driver(" \o DebugDriver(e.val) \o ")"
      [] e.tag = "Io" -> "Io(" \o DebugIo(e.val) \o ")"
      [] e.tag = "Connection" -> "Connection(" \o DebugConnection(e.val) \o ")"
      [] e.tag = "Other" -> "Other(" \o DebugContext(e.val) \o ")"
      [] e.tag = "Server" -> "Server(" \o DebugServer(e.val) \o ")"
      [] e.tag = "Url" -> "Url(" \o DebugUrl(e.val) \o ")"
      [] OTHER -> "FromSql(" \o DebugFromSql(e.val) \o ")"

\* The conversion without the Io arm.
IoFromError_AlwaysWraps(e) == IoNew("Other", DebugFmt(e))

IoFromError(e) ==
    IF e.tag = "Io" THEN e.val ELSE IoNew("Other", DebugFmt(e))

(***************************************************************************)
(* Errors built directly from their variant: FromSqlError has no From      *)
(* impl.                                                                   *)
(***************************************************************************)
FromSqlErrors ==
    {[variant |-> "InvalidType", from |-> "UInt8", to |-> "String"],
     [variant |-> "OutOfRange"], [variant |-> "UnsupportedOperation"]}

(***************************************************************************)
(* The state machine.  pc is the position of the one in-flight operation:  *)
(*   idle       a column read is requested and has not been attempted      *)
(*   raised     a lower-level failure (low) awaits conversion              *)
(*   converted  err holds the unified Error                                *)
(*   pending    the adapter answered NotReady; the read may be retried     *)
(*   failed     the adapter answered Err                                   *)
(*   collapsed  the Error was converted to an io::Error (ioOut)            *)
(*   done       load_data returned a buffer                                *)
(***************************************************************************)
Requests == [type_name : TypeNames, size : 0..MaxCount, tz : Timezones]

NoRet == Err(IoFromKind("Other"))

NoIo == IoFromKind("Other")

TypeOK ==
    /\ req \in Requests
    /\ reader.data \in Streams
    /\ reader.pos \in 0..StreamLen
    /\ reader.avail \in reader.pos..StreamLen
    /\ reader.end \in {"open", "eof", "reset"}
    /\ start \in 0..reader.pos
    /\ turns \in 0..MaxTurns
    /\ pc \in {"idle", "raised", "converted", "pending", "failed", "collapsed",
               "done"}
    /\ origin \in {"none", "load_data", "raise", "deadline", "direct"}

\* A column read is requested of a source whose first `start` bytes an
\* earlier column consumed.
Init ==
    /\ req \in Requests
    /\ start \in 0..MaxStart
    /\ reader \in [data : Streams, pos : {start}, avail : {start}, end : {"open"}]
    /\ turns = 0
    /\ pc = "idle"
    /\ ret = NoRet
    /\ low = NoLow
    /\ err = NoError
    /\ poll = PollNone
    /\ ioOut = NoIo
    /\ origin = "none"

\* More of the stream arrives.
Arrive ==
    /\ pc \in {"idle", "pending"}
    /\ reader.end = "open"
    /\ \E n \in (reader.avail + 1)..StreamLen :
          reader' = [reader EXCEPT !.avail = n]
    /\ UNCHANGED <<req, start, turns, pc, ret, low, err, poll, ioOut, origin>>

\* The source ends: the peer closes it, or the connection is reset.
Close ==
    /\ pc \in {"idle", "pending"}
    /\ reader.end = "open"
    /\ \E e \in {"eof", "reset"} : reader' = [reader EXCEPT !.end = e]
    /\ UNCHANGED <<req, start, turns, pc, ret, low, err, poll, ioOut, origin>>

\* One invocation of ColumnData::load_data: the first attempt, or the
\* retry of the same read after NotReady.
CallLoadData ==
    /\ pc = "idle" \/ (pc = "pending" /\ turns < MaxTurns)
    /\ LET out == LoadData(reader, req.type_name, req.size, req.tz)
       IN  /\ ret' = out.ret
           /\ reader' = out.reader
           /\ IF out.ret.ok
              THEN /\ pc' = "done"
                   /\ low' = NoLow
                   /\ origin' = "none"
              ELSE /\ pc' = "raised"
                   /\ low' = Low("io::Error", out.ret.err)
                   /\ origin' = "load_data"
    /\ turns' = IF pc = "pending" THEN turns + 1 ELSE turns
    /\ err' = NoError
    /\ poll' = PollNone
    /\ ioOut' = NoIo
    /\ UNCHANGED <<req, start>>

\* Some other part of the client fails with a lower-level failure.
Raise ==
    /\ pc = "idle"
    /\ \E l \in LowFailures : low' = l
    /\ pc' = "raised"
    /\ origin' = "raise"
    /\ UNCHANGED <<req, reader, start, turns, ret, err, poll, ioOut>>

\* ... or with an Error built from its variant.
RaiseError ==
    /\ pc = "idle"
    /\ \E f \in FromSqlErrors : err' = Error("FromSql", f)
    /\ pc' = "converted"
    /\ origin' = "direct"
    /\ UNCHANGED <<req, reader, start, turns, ret, low, poll, ioOut>>

\* The deadline wrapping the operation fires after the operation failed
\* with err ...
DeadlineInner ==
    /\ pc = "converted"
    /\ low' = Low("TimeoutError", TimeoutInner(err))
    /\ pc' = "raised"
    /\ origin' = "deadline"
    /\ err' = NoError
    /\ UNCHANGED <<req, reader, start, turns, ret, poll, ioOut>>

\* ... or while no error is recorded: the deadline elapsed, or the timer
\* itself failed.
DeadlineElapsed ==
    /\ pc \in {"idle", "pending"}
    /\ \/ low' = Low("TimeoutError", TimeoutElapsed)
       \/ \E t \in TimerErrors : low' = Low("TimeoutError", TimeoutTimer(t))
    /\ pc' = "raised"
    /\ origin' = "deadline"
    /\ err' = NoError
    /\ UNCHANGED <<req, reader, start, turns, ret, poll, ioOut>>

\* The From impls: `?` / .into() on a raised failure.
Convert(src, e) ==
    /\ pc = "raised"
    /\ low.src = src
    /\ err' = e
    /\ pc' = "converted"
    /\ UNCHANGED <<req, reader, start, turns, ret, low, poll, ioOut, origin>>

FromDriverError == Convert("DriverError", From_DriverError(low.val))

FromIoError == Convert("io::Error", From_IoError(low.val))

FromServerError == Convert("ServerError", From_ServerError(low.val))

FromUrlError == Convert("UrlError", From_UrlError(low.val))

FromString == Convert("String", From_String(low.val))

FromStr == Convert("&str", From_Str(low.val))

FromFromUtf8Error == Convert("FromUtf8Error", From_FromUtf8Error(low.val))

FromTimerError == Convert("TimerError", From_TimerError(low.val))

FromParseError == Convert("ParseError", From_ParseError(low.val))

FromTimeoutError == Convert("TimeoutError", From_TimeoutError(low.val))

FromUtf8Error == Convert("Utf8Error", From_Utf8Error(low.val))

FromConnectionError == Convert("ConnectionError", From_ConnectionError(low.val))

\* Error -> Poll.
Adapt ==
    /\ pc = "converted"
    /\ poll' = IntoPoll(err)
    /\ pc' = IF poll'.state = "NotReady" THEN "pending" ELSE "failed"
    /\ UNCHANGED <<req, reader, start, turns, ret, low, err, ioOut, origin>>

\* Error -> io::Error.
Collapse ==
    /\ pc = "converted"
    /\ ioOut' = IoFromError(err)
    /\ pc' = "collapsed"
    /\ UNCHANGED <<req, reader, start, turns, ret, low, err, poll, origin>>

\* Decoding a column: the read, the conversion of its io::Error and the
\* adapter, retried while the adapter answers NotReady.
Next ==
    \/ Arrive
    \/ Close
    \/ CallLoadData
    \/ FromIoError
    \/ Adapt

Spec == Init /\ [][Next]_vars

\* The error model on its own: any failure of the client, converted,
\* wrapped by a deadline, adapted or collapsed.
ErrInit ==
    /\ Init
    /\ req = [type_name |-> "UInt8", size |-> 0, tz |-> "UTC"]
    /\ reader.data = Ascending
    /\ start = 0

ErrNext ==
    \/ Raise
    \/ RaiseError
    \/ DeadlineInner
    \/ DeadlineElapsed
    \/ FromDriverError
    \/ FromIoError
    \/ FromServerError
    \/ FromUrlError
    \/ FromString
    \/ FromStr
    \/ FromFromUtf8Error
    \/ FromTimerError
    \/ FromParseError
    \/ FromTimeoutError
    \/ FromUtf8Error
    \/ FromConnectionError
    \/ Adapt
    \/ Collapse

ErrSpec == ErrInit /\ [][ErrNext]_vars

(***************************************************************************)
(* Properties of load_data (under Spec).                                   *)
(***************************************************************************)
\* The identifiers the dispatcher is documented to recognize.
Recognized ==
    {"UInt8", "UInt16", "UInt32", "UInt64", "Int8", "Int16", "Int32", "Int64",
     "Float32", "Float64", "String", "Date", "DateTime"}

\* ret holds what the latest call of load_data returned.
Called == pc # "idle"

\* No arrival since the latest call: reader.avail is what the call saw.
JustCalled == pc \in {"done", "raised", "converted", "failed"}

\* C1: for every type name that is not exactly one of the thirteen
\* recognized names, and every count, load_data fails, returns no buffer,
\* and the error's text is `Unsupported column type "X".` with the name
\* embedded verbatim.
C1_UnsupportedTypeRejected ==
    (Called /\ req.type_name \notin Recognized) =>
        /\ ~ret.ok
        /\ ret.buf = NoColumn
        /\ ret.err.msg = "Unsupported column type \"" \o req.type_name \o "\"."
        /\ (req.type_name = "Foo" =>
                ret.err.msg = "Unsupported column type \"Foo\".")
        /\ (req.type_name = "String " =>
                ret.err.msg = "Unsupported column type \"String \".")

C1_Witness ==
    /\ pc = "raised"
    /\ origin = "load_data"
    /\ req.type_name = "uint8"
    /\ req.size = 2
    /\ ~ret.ok

\* The width in bytes of one element and the decoder of each fixed-width
\* type name.
Width(type_name) ==
    CASE type_name \in {"UInt8", "Int8"} -> 1
      [] type_name \in {"UInt16", "Int16", "Date"} -> 2
      [] type_name \in {"UInt32", "Int32", "Float32", "DateTime"} -> 4
      [] OTHER -> 8

DecoderOf(type_name) ==
    CASE type_name = "UInt8" -> "VectorColumnData<u8>"
      [] type_name = "UInt16" -> "VectorColumnData<u16>"
      [] type_name = "UInt32" -> "VectorColumnData<u32>"
      [] type_name = "UInt64" -> "VectorColumnData<u64>"
      [] type_name = "Int8" -> "VectorColumnData<i8>"
      [] type_name = "Int16" -> "VectorColumnData<i16>"
      [] type_name = "Int32" -> "VectorColumnData<i32>"
      [] type_name = "Int64" -> "VectorColumnData<i64>"
      [] type_name = "Float32" -> "VectorColumnData<f32>"
      [] type_name = "Float64" -> "VectorColumnData<f64>"
      [] type_name = "String" -> "StringColumnData"
      [] type_name = "Date" -> "DateColumnData<u16>"
      [] OTHER -> "DateColumnData<u32>"

\* The position after `count` length-prefixed strings of the whole stream
\* from cur, or beyond the stream when they do not fit in it.
RECURSIVE StringsEnd(_, _, _)
StringsEnd(data, cur, count) ==
    IF count = 0 THEN cur
    ELSE LET len == ReadUvarint([data |-> data, avail |-> Len(data)], cur, 1, 0)
         IN  IF ~len.ok \/ len.cur + len.value > Len(data) THEN Len(data) + 1
             ELSE StringsEnd(data, len.cur + len.value, count - 1)

\* The bytes of the requested column had all arrived when load_data was
\* called.
EnoughBytes ==
    IF req.type_name = "String"
    THEN StringsEnd(reader.data, start, req.size) <= reader.avail
    ELSE start + req.size * Width(req.type_name) <= reader.avail

\* C2: for each recognized type name and every count >= 0, when the reader
\* holds enough bytes load_data succeeds with the buffer of the one decoder
\* matching the name, given the timezone for Date and DateTime, holding
\* exactly count elements.
C2_RecognizedTypeDecoded ==
    (JustCalled /\ req.type_name \in Recognized /\ EnoughBytes) =>
        /\ ret.ok
        /\ pc = "done"
        /\ ret.buf.decoder = DecoderOf(req.type_name)
        /\ ret.buf.tz =
              (IF req.type_name \in {"Date", "DateTime"} THEN req.tz ELSE "-")
        /\ Len(ret.buf.data) = req.size
        /\ (req.type_name # "String" =>
                \A i \in 1..req.size :
                    Len(ret.buf.data[i]) = Width(req.type_name))

C2_Witness ==
    /\ pc = "done"
    /\ req.type_name = "DateTime"
    /\ req.size = 2
    /\ req.tz = "Europe/Moscow"
    /\ Len(ret.buf.data) = 2

\* The wire bytes of a buffer: its elements in order, each string behind
\* its length prefix.
RECURSIVE Uvarint(_)
Uvarint(n) ==
    IF n < 128 THEN <<n>> ELSE <<128 + (n % 128)>> \o Uvarint(n \div 128)

RECURSIVE Encode(_, _)
Encode(decoder, data) ==
    IF data = <<>> THEN <<>>
    ELSE (IF decoder = "StringColumnData"
          THEN Uvarint(Len(Head(data))) \o Head(data)
          ELSE Head(data))
         \o Encode(decoder, Tail(data))

\* What load_data returns for the request when nothing interrupts it: the
\* whole stream has arrived.
Uninterrupted ==
    LoadData([reader EXCEPT !.pos = start, !.avail = Len(reader.data)],
             req.type_name, req.size, req.tz).ret

C6_NoPartialBuffer ==
    /\ ret.ok => Len(ret.buf.data) = req.size
    /\ ~ret.ok => ret.buf = NoColumn
    /\ (JustCalled /\ req.type_name \in Recognized /\ ~EnoughBytes) =>
          ~ret.ok /\ pc # "done"
    /\ pc = "failed" => poll.state = "Err"
    /\ pc = "pending" => poll.state = "NotReady"

C6_Witness ==
    /\ pc = "raised"
    /\ origin = "load_data"
    /\ req.type_name = "UInt8"
    /\ req.size = 2
    /\ reader.avail = start + 1
    /\ ~ret.ok

\* C7: the failure of load_data for an unrecognized type name is a
\* Driver or TypeConversion (FromSql) error, not a Transport/IO error,
\* once converted into the unified Error and after the adapter.
C7_UnsupportedIsDriverClass ==
    (origin = "load_data" /\ req.type_name \notin Recognized) =>
        /\ pc \in {"converted", "failed"} => err.tag \in {"Driver", "FromSql"}
        /\ pc = "failed" => poll.err.tag \in {"Driver", "FromSql"}

(***************************************************************************)
(* Properties of the error model (under ErrSpec).                          *)
(***************************************************************************)
\* C3: the adapter answers NotReady exactly when the error is an Io error
\* of kind WouldBlock; every other error is answered Err, and the adapter
\* never answers Ready.
C3_PendingIffWouldBlock ==
    pc \in {"pending", "failed"} =>
        /\ poll.state \in {"NotReady", "Err"}
        /\ poll.state = "NotReady" <=>
              (err.tag = "Io" /\ err.val.kind = "WouldBlock")
        /\ pc = "pending" <=> poll.state = "NotReady"

C3_Witness ==
    /\ pc = "pending"
    /\ poll.state = "NotReady"
    /\ origin = "raise"
    /\ err = Error("Io", IoFromKind("WouldBlock"))

\* C5: converting a timeout wrapper yields one error: the wrapped
\* operation's own error E when it had failed with E, and the Driver
\* Timeout error when no error was recorded and the deadline elapsed.
C5_TimeoutComposition ==
    (pc = "converted" /\ low.src = "TimeoutError") =>
        /\ low.val.variant = "Inner" => err = low.val.inner
        /\ low.val.variant = "Elapsed" =>
              err = [tag |-> "Driver", val |-> [variant |-> "Timeout"]]

C5_Witness ==
    /\ pc = "converted"
    /\ low.src = "TimeoutError"
    /\ low.val.variant = "Inner"
    /\ err.tag = "Server"

\* C8 as stated: a Utf8Error or FromUtf8Error converted into the unified
\* Error receives the TypeConversion (FromSql) tag.
C8_TextFailureIsTypeConversion ==
    (pc = "converted" /\ low.src \in {"Utf8Error", "FromUtf8Error"}) =>
        err.tag = "FromSql"

\* C8 as amended: a Utf8Error becomes Driver(Utf8Error) and a FromUtf8Error
\* becomes Other, each wrapping the decoding fault unchanged; the tag is a
\* function of the kind of the source failure alone.
C8_TextFailureTags ==
    /\ (pc = "converted" /\ low.src = "Utf8Error") =>
          /\ err.tag = "Driver"
          /\ err.val.variant = "Utf8Error"
          /\ err.val.utf8 = low.val
    /\ (pc = "converted" /\ low.src = "FromUtf8Error") =>
          /\ err.tag = "Other"
          /\ err.val.of = low.val

C8_Witness ==
    /\ pc = "converted"
    /\ low.src = "Utf8Error"
    /\ low.val.valid_up_to = 1
    /\ err.tag = "Driver"

\* C9: Error -> io::Error returns the carried io::Error unchanged for the
\* Io tag, so io::Error -> Error -> io::Error is the identity, and for
\* every other tag an io::Error of kind Other whose text renders the
\* original error.
C9_IoCompatibility ==
    pc = "collapsed" =>
        /\ err.tag = "Io" => ioOut = err.val
        /\ low.src = "io::Error" => ioOut = low.val
        /\ err.tag # "Io" =>
              /\ ioOut.kind = "Other"
              /\ ioOut.msg = DebugFmt(err)
        /\ err = [tag |-> "Driver", val |-> [variant |-> "Timeout"]] =>
              ioOut.msg = "Driver(Timeout)"
        /\ (err.tag = "Url" /\ err.val.variant = "UnknownParameter") =>
              ioOut.msg = "Url(UnknownParameter { param: \"foo\" })"

C9_Witness ==
    /\ pc = "collapsed"
    /\ low.src = "io::Error"
    /\ low.val = IoNew("WouldBlock", "would block")
    /\ ioOut.kind = "WouldBlock"

\* C10: whenever the adapter answers Err, the error it carries is the
\* input error unchanged: an Io error keeps its kind and payload, any
\* other error its tag and contents.
C10_FailedKeepsError ==
    pc = "failed" =>
        /\ poll.state = "Err"
        /\ poll.err = err

C10_Witness ==
    /\ pc = "failed"
    /\ err = Error("Io", IoFromKind("ConnectionReset"))
    /\ poll.err.val.kind = "ConnectionReset"

====
